---- MODULE Spec2Model ----
(***************************************************************************)
(* A model of iai's src/lib.rs: the dual-mode runner (orchestrator and     *)
(* instrumented child), run_bench's handling of the cachegrind report      *)
(* files, the report parser, CachegrindStats::subtract / summarize and     *)
(* percentage_diff.                                                        *)
(*                                                                         *)
(* Four specifications share the module:                                   *)
(*   Spec      - processes of the benchmark binary started one after the   *)
(*               other over one target/iai directory;                      *)
(*   SpecStats - subtract and summarize applied to counter records;        *)
(*   SpecDiff  - percentage_diff applied to pairs of metric values;        *)
(*   SpecParse - parse_cachegrind_output applied to report files.          *)
(***************************************************************************)
EXTENDS Integers, Sequences, FiniteSets, TLC

\* ------------------------------------------------------------------ bounds

\* Processes of the benchmark binary started over the same directory.
MaxRuns == 3
\* Registered benchmarks (the slice handed to runner).
NumBenches == 2
\* SpecStats: the sum of all counters of the measured and the baseline record.
MaxTotal == 5
\* SpecDiff: the small metric values, and how far new may lie from old.
MaxSmall == 5
MaxDelta == 3
\* SpecDiff: new is also old times 10^j, j up to MaxPow.
MaxPow == 5
\* SpecParse: lines of a report file, rotations of the events line, and offsets of
\* the values of the summary line.
MaxLines == 3
MaxRot == 1
MaxBase == 1
\* The width the model gives the u64 counters (wrapping is modulo 2^WordBits).
WordBits == 16

\* --------------------------------------------------------------- variables

VARIABLES
    \* Spec: the process being run
    args,            \* its arguments after the executable name
    tool,            \* what launching `valgrind --version` gives this process
    uname,           \* whether `uname -m` can be run
    pc,              \* where the process is: "exit" (none running), "dispatch",
                     \* "probe", "arch", "calib", "bench"
    exit,            \* how the last process ended
    json,            \* runner's `json`
    calibration,     \* runner's `calibration` (the run that measured it)
    old_calibration, \* runner's `old_calibration` (0: None)
    k,               \* index of the next benchmark of the for loop
    out,             \* what the process printed on stdout, in order
    spawned,         \* the child indexes the process handed to valgrind, in order
    invoked,         \* the benchmark bodies invoked, each with the process kind
    fileops,         \* the file operations the process made
    probed,          \* whether the process launched `valgrind --version`
    \* Spec: what outlives a process
    runs,            \* processes started so far
    fs,              \* target/iai: path -> the run whose report the file holds (0: no file)
    \* Spec: history, read by the properties only
    fs_start,        \* fs when the process started
    last,            \* per name: the run of the most recent run_bench invocation (0: none)
    prev,            \* per name: the run of the invocation before that one (0: none)
    first_failure,   \* index of the first child of this process that exited non-zero
    unspawned,       \* the names for which a run_bench call could not start its command
    \* SpecStats
    measured, baseline, st_diff, st_sum, st_pc,
    \* SpecDiff
    pd_new, pd_old, pd_out, pd_pc,
    \* SpecParse
    file, parsed, ps_pc

orchVars == <<args, tool, uname, pc, exit, json, calibration, old_calibration, k, out,
              spawned, invoked, fileops, probed, runs, fs, fs_start, last, prev, first_failure,
              unspawned>>
statVars == <<measured, baseline, st_diff, st_sum, st_pc>>
diffVars == <<pd_new, pd_old, pd_out, pd_pc>>
parseVars == <<file, parsed, ps_pc>>
vars == <<orchVars, statVars, diffVars, parseVars>>

\* ------------------------------------------------------- text conversions

\* The decimal texts of the small signed integers the model uses; the text at
\* position p is the numeral of p - 3.
IsizeTexts == <<"-2", "-1", "0", "1", "2", "3", "4">>

\* i.to_string() (run_bench) for an isize.
to_string(i) == IsizeTexts[i + 3]

\* str::parse::<isize>: the value, or "err" for a text that is no numeral.
ParseIsize(s) ==
    IF \E p \in 1..Len(IsizeTexts) : IsizeTexts[p] = s
    THEN [ok |-> TRUE, val |-> (CHOOSE p \in 1..Len(IsizeTexts) : IsizeTexts[p] = s) - 3]
    ELSE [ok |-> FALSE, val |-> 0]

\* ------------------------------------------------------- registered benches

BenchNameTable == <<"bench_a", "bench_b", "bench_c">>

\* The slice `benches` handed to runner: the names, in registration order.
benches == [i \in 1..NumBenches |-> BenchNameTable[i]]

CalibrationName == "iai_calibration"

Names == {CalibrationName} \cup {benches[i] : i \in 1..NumBenches}

\* run_bench's output_file and old_file for a name.
output_file(name) == "target/iai/cachegrind.out." \o name
old_file(name) == "target/iai/" \o ("cachegrind.out." \o name \o ".old")

Paths == {output_file(n) : n \in Names} \cup {old_file(n) : n \in Names}

\* first_failure while no child of the process has failed.
NoFailure == 0 - 2

\* ------------------------------------------------------------ child mode

\* iai_run with the calibration signal taken for an ordinary index one too low.
iai_run_shifted(rest) ==
    IF Len(rest) = 0
    THEN [exit |-> "panic", bodies |-> <<>>]
    ELSE LET idx == ParseIsize(rest[1]) IN
         IF ~idx.ok
         THEN [exit |-> "panic", bodies |-> <<>>]
         ELSE IF idx.val + 1 < 0 \/ idx.val + 1 >= NumBenches
         THEN [exit |-> "panic", bodies |-> <<>>]
         ELSE [exit |-> "returned", bodies |-> <<idx.val + 1>>]

\* runner's `--iai-run` branch, given the arguments after the token: the index is
\* parsed, -1 returns at once, any other index is cast to usize and indexes benches.
\* Gives how the process ends and the bodies it invoked.
iai_run(rest) ==
    IF Len(rest) = 0
    THEN [exit |-> "panic", bodies |-> <<>>]           \* args_iter.next().unwrap()
    ELSE LET idx == ParseIsize(rest[1]) IN
         IF ~idx.ok
         THEN [exit |-> "panic", bodies |-> <<>>]      \* .parse().unwrap()
         ELSE IF idx.val = -1
         THEN [exit |-> "returned", bodies |-> <<>>]
         ELSE IF idx.val < 0 \/ idx.val >= NumBenches
         THEN [exit |-> "panic", bodies |-> <<>>]      \* benches[index] out of bounds
         ELSE [exit |-> "returned", bodies |-> <<idx.val>>]

\* Whether runner takes the child branch: the first argument is the reserved token.
is_iai_run(a) == Len(a) > 0 /\ a[1] = "--iai-run"

\* runner's `json`: the first argument is "--json".
json_flag(a) == Len(a) > 0 /\ a[1] = "--json"

\* ---------------------------------------------------------- orchestrator

\* check_valgrind with the failed probe ignored.
check_valgrind_ignored(t) == TRUE

\* check_valgrind: true exactly when `valgrind --version` launched and succeeded.
check_valgrind(t) == t = "ok"

\* What running the valgrind command can give: "ok" (exit 0, report written),
\* "body_failed" (the benchmark body ends the child with a non-zero status;
\* cachegrind writes its report at exit all the same), "tool_failed" (setarch or
\* valgrind itself exits non-zero before the child runs: no report is written),
\* "spawn_error" (the command cannot be started: output() is an Err).
\* The calibration child runs no body.
Outcomes(i) ==
    IF i = -1
    THEN {"ok", "tool_failed", "spawn_error"}
    ELSE {"ok", "body_failed", "tool_failed", "spawn_error"}

\* run_bench with the child's exit status never looked at.
status_failed_unchecked(outcome) == FALSE

\* `!output.status.success()` of run_bench.
status_failed(outcome) == outcome # "ok"

\* run_bench(i, name) in run r over file system f, the child ending as `outcome`.
run_bench(f, i, name, outcome, r) ==
    LET of == output_file(name)
        old == old_file(name)
        rotate == f[of] # 0
        f1 == IF rotate THEN [f EXCEPT ![old] = f[of]] ELSE f
        ran == outcome \in {"ok", "body_failed"}
        child == IF ran THEN iai_run(<<to_string(i)>>) ELSE [exit |-> "none", bodies |-> <<>>]
        f2 == IF ran THEN [f1 EXCEPT ![of] = r] ELSE f1
        failed == status_failed(outcome)
    IN  [fs |-> f2,
         \* .expect("Failed to run benchmark in cachegrind")
         spawn_panic |-> outcome = "spawn_error",
         failed |-> outcome # "spawn_error" /\ failed,
         \* parse_cachegrind_output(&output_file) panics when the file is missing
         parse_panic |-> outcome # "spawn_error" /\ ~failed /\ f2[of] = 0,
         new_stats |-> f2[of],
         old_stats |-> f2[old],
         bodies |-> child.bodies,
         ops |-> (IF rotate THEN {[op |-> "read", path |-> of], [op |-> "write", path |-> old]}
                  ELSE {})
                 \cup (IF ran THEN {[op |-> "write", path |-> of]} ELSE {})
                 \cup (IF outcome # "spawn_error" /\ ~failed
                       THEN {[op |-> "read", path |-> of]} ELSE {})
                 \cup (IF outcome # "spawn_error" /\ ~failed /\ f2[of] # 0 /\ f2[old] # 0
                       THEN {[op |-> "read", path |-> old]} ELSE {})]

ArgLists ==
    {<<>>, <<"--json">>, <<"--bench">>, <<"--iai-run">>, <<"--iai-run", "x">>}
    \cup {<<"--iai-run", to_string(i)>> : i \in -2..NumBenches}

Event(kind, b) == [kind |-> kind, bench |-> b, stats |-> <<0, 0>>, old_stats |-> <<0, 0>>]

\* A process of the benchmark binary is started: runner reads its arguments.
Start ==
    /\ pc = "exit"
    /\ runs < MaxRuns
    /\ \E a \in ArgLists, t \in {"ok", "missing", "bad_status"}, u \in BOOLEAN :
        /\ args' = a
        /\ tool' = t
        /\ uname' = u
    /\ runs' = runs + 1
    /\ pc' = "dispatch"
    /\ exit' = "running"
    /\ json' = FALSE
    /\ calibration' = 0
    /\ old_calibration' = 0
    /\ k' = 0
    /\ out' = <<>>
    /\ spawned' = <<>>
    /\ invoked' = <<>>
    /\ fileops' = {}
    /\ probed' = FALSE
    /\ fs_start' = fs
    /\ first_failure' = NoFailure
    /\ UNCHANGED <<fs, last, prev, unspawned, statVars, diffVars, parseVars>>

\* runner, lines 323-342: the child branch runs to its end; otherwise json is set.
Dispatch ==
    /\ pc = "dispatch"
    /\ IF is_iai_run(args)
       THEN LET r == iai_run(Tail(args)) IN
            /\ invoked' = [i \in 1..Len(r.bodies) |-> [proc |-> "self", idx |-> r.bodies[i]]]
            /\ exit' = r.exit
            /\ pc' = "exit"
            /\ UNCHANGED json
       ELSE /\ json' = json_flag(args)
            /\ pc' = "probe"
            /\ UNCHANGED <<invoked, exit>>
    /\ UNCHANGED <<args, tool, uname, calibration, old_calibration, k, out, spawned, fileops,
                   probed, runs, fs, fs_start, last, prev, first_failure, unspawned,
                   statVars, diffVars, parseVars>>

\* runner, lines 345-347, with check_valgrind's diagnostics.
Probe ==
    /\ pc = "probe"
    /\ probed' = TRUE
    /\ IF check_valgrind(tool)
       THEN /\ pc' = "arch"
            /\ UNCHANGED <<out, exit>>
       ELSE /\ out' = Append(out, Event(IF tool = "missing" THEN "diag_launch" ELSE "diag_status", -1))
            /\ exit' = "tool_unavailable"
            /\ pc' = "exit"
    /\ UNCHANGED <<args, tool, uname, json, calibration, old_calibration, k, spawned, invoked,
                   fileops, runs, fs, fs_start, last, prev, first_failure, unspawned,
                   statVars, diffVars, parseVars>>

\* runner, line 349: get_arch panics when uname cannot be run.
Arch ==
    /\ pc = "arch"
    /\ IF uname
       THEN pc' = "calib" /\ UNCHANGED exit
       ELSE pc' = "exit" /\ exit' = "panic"
    /\ UNCHANGED <<args, tool, uname, json, calibration, old_calibration, k, out, spawned,
                   invoked, fileops, probed, runs, fs, fs_start, last, prev, first_failure,
                   unspawned, statVars, diffVars, parseVars>>

\* What one run_bench call leaves behind, whatever its caller does next.
Invocation(i, name, outcome, rb) ==
    /\ fs' = rb.fs
    /\ spawned' = Append(spawned, i)
    /\ invoked' = invoked \o [j \in 1..Len(rb.bodies) |-> [proc |-> "child", idx |-> rb.bodies[j]]]
    /\ fileops' = fileops \cup rb.ops
    /\ prev' = [prev EXCEPT ![name] = last[name]]
    /\ last' = [last EXCEPT ![name] = runs]
    /\ first_failure' = IF outcome \in {"body_failed", "tool_failed"} /\ first_failure = NoFailure
                        THEN i ELSE first_failure
    /\ unspawned' = IF outcome = "spawn_error" THEN unspawned \cup {name} ELSE unspawned

\* runner, lines 353-354: the calibration run.
Calibrate ==
    /\ pc = "calib"
    /\ \E outcome \in Outcomes(-1) :
        LET rb == run_bench(fs, -1, CalibrationName, outcome, runs) IN
        /\ Invocation(-1, CalibrationName, outcome, rb)
        /\ IF rb.spawn_panic
           THEN /\ pc' = "exit"
                /\ exit' = "panic"
                /\ UNCHANGED <<calibration, old_calibration>>
           ELSE IF rb.failed
           THEN /\ pc' = "exit"
                /\ exit' = "child_failed"
                /\ UNCHANGED <<calibration, old_calibration>>
           ELSE IF rb.parse_panic
           THEN /\ pc' = "exit"
                /\ exit' = "panic"
                /\ UNCHANGED <<calibration, old_calibration>>
           ELSE /\ calibration' = rb.new_stats
                /\ old_calibration' = rb.old_stats
                /\ IF NumBenches = 0
                   THEN pc' = "exit" /\ exit' = "finished"
                   ELSE pc' = "bench" /\ UNCHANGED exit
    /\ UNCHANGED <<args, tool, uname, json, k, out, probed, runs, fs_start,
                   statVars, diffVars, parseVars>>

\* runner, lines 356-470: one iteration of the loop over benches. `arith` is whether
\* an unsigned subtraction of summarize underflows on this benchmark's counters in a
\* build with overflow checks (the counters are not part of this specification; see
\* SpecStats).
Bench ==
    /\ pc = "bench"
    /\ \E outcome \in Outcomes(k), arith \in {"fine", "panic"} :
        LET rb == run_bench(fs, k, benches[k + 1], outcome, runs)
            head == Append(out, Event(IF json THEN "run" ELSE "name", k))
            st == <<rb.new_stats, calibration>>
            old == IF rb.old_stats # 0 /\ old_calibration # 0
                   THEN <<rb.old_stats, old_calibration>> ELSE <<0, 0>>
            full == [kind |-> IF json THEN "ran" ELSE "report", bench |-> k,
                     stats |-> st, old_stats |-> old]
        IN
        /\ Invocation(k, benches[k + 1], outcome, rb)
        /\ IF rb.spawn_panic
           THEN /\ out' = head
                /\ pc' = "exit"
                /\ exit' = "panic"
                /\ UNCHANGED k
           ELSE IF rb.failed
           THEN /\ out' = head
                /\ pc' = "exit"
                /\ exit' = "child_failed"
                /\ UNCHANGED k
           ELSE IF rb.parse_panic
           THEN /\ out' = head
                /\ pc' = "exit"
                /\ exit' = "panic"
                /\ UNCHANGED k
           ELSE IF arith = "panic"
           THEN \* the Instructions line is printed before summarize is called; in
                \* json mode Display calls summarize while the line is formatted
                /\ out' = IF json THEN head ELSE Append(head, Event("instructions", k))
                /\ pc' = "exit"
                /\ exit' = "panic"
                /\ UNCHANGED k
           ELSE /\ out' = Append(head, full)
                /\ k' = k + 1
                /\ IF k + 1 = NumBenches
                   THEN pc' = "exit" /\ exit' = "finished"
                   ELSE pc' = "bench" /\ UNCHANGED exit
    /\ UNCHANGED <<args, tool, uname, json, calibration, old_calibration, probed, runs,
                   fs_start, statVars, diffVars, parseVars>>


\* ---------------------------------------------------------- CachegrindStats

\* The nine fields of CachegrindStats.
Fields == {"instruction_reads", "instruction_l1_misses", "instruction_cache_misses",
           "data_reads", "data_l1_read_misses", "data_cache_read_misses",
           "data_writes", "data_l1_write_misses", "data_cache_write_misses"}

ZeroStats == [f \in Fields |-> 0]

Modulus == 2 ^ WordBits

\* u64::saturating_sub.
saturating_sub(a, b) == IF a >= b THEN a - b ELSE 0

\* subtract with one field taken from the wrong field of the calibration record.
subtract_crossed(self, cal) ==
    [instruction_reads |-> saturating_sub(self.instruction_reads, cal.instruction_reads),
     instruction_l1_misses |-> saturating_sub(self.instruction_l1_misses, cal.instruction_l1_misses),
     instruction_cache_misses |-> saturating_sub(self.instruction_cache_misses, cal.instruction_cache_misses),
     data_reads |-> saturating_sub(self.data_reads, cal.data_reads),
     data_l1_read_misses |-> saturating_sub(self.data_l1_read_misses, cal.data_l1_read_misses),
     data_cache_read_misses |-> saturating_sub(self.data_cache_read_misses, cal.data_cache_read_misses),
     data_writes |-> saturating_sub(self.data_writes, cal.data_writes),
     data_l1_write_misses |-> saturating_sub(self.data_l1_write_misses, cal.data_l1_read_misses),
     data_cache_write_misses |-> saturating_sub(self.data_cache_write_misses, cal.data_cache_write_misses)]

\* CachegrindStats::subtract.
subtract(self, cal) ==
    [instruction_reads |-> saturating_sub(self.instruction_reads, cal.instruction_reads),
     instruction_l1_misses |-> saturating_sub(self.instruction_l1_misses, cal.instruction_l1_misses),
     instruction_cache_misses |-> saturating_sub(self.instruction_cache_misses, cal.instruction_cache_misses),
     data_reads |-> saturating_sub(self.data_reads, cal.data_reads),
     data_l1_read_misses |-> saturating_sub(self.data_l1_read_misses, cal.data_l1_read_misses),
     data_cache_read_misses |-> saturating_sub(self.data_cache_read_misses, cal.data_cache_read_misses),
     data_writes |-> saturating_sub(self.data_writes, cal.data_writes),
     data_l1_write_misses |-> saturating_sub(self.data_l1_write_misses, cal.data_l1_write_misses),
     data_cache_write_misses |-> saturating_sub(self.data_cache_write_misses, cal.data_cache_write_misses)]

\* The u64 operators `+` and `-`: [ovf, val], the value wrapped as a build without
\* overflow checks computes it, ovf saying a build with overflow checks panics.
u64_add(a, b) == [ovf |-> a + b >= Modulus, val |-> (a + b) % Modulus]
u64_sub(a, b) == [ovf |-> a < b, val |-> (a - b) % Modulus]

\* CachegrindStats::ram_accesses.
ram_accesses(self) ==
    LET x == u64_add(self.instruction_cache_misses, self.data_cache_read_misses)
        y == u64_add(x.val, self.data_cache_write_misses)
    IN  [ovf |-> x.ovf \/ y.ovf, val |-> y.val]

\* CachegrindStats::summarize in a build with (checks) or without overflow checks:
\* the CachegrindSummary, or panicked.
summarize(self, checks) ==
    LET ram_hits == ram_accesses(self)
        a1 == u64_add(self.instruction_l1_misses, self.data_l1_read_misses)
        l3_accesses == u64_add(a1.val, self.data_l1_write_misses)
        l3_hits == u64_sub(l3_accesses.val, ram_hits.val)
        t1 == u64_add(self.instruction_reads, self.data_reads)
        total_memory_rw == u64_add(t1.val, self.data_writes)
        served == u64_add(ram_hits.val, l3_hits.val)
        l1_hits == u64_sub(total_memory_rw.val, served.val)
        ovf == \/ ram_hits.ovf \/ a1.ovf \/ l3_accesses.ovf \/ l3_hits.ovf
               \/ t1.ovf \/ total_memory_rw.ovf \/ served.ovf \/ l1_hits.ovf
    IN  IF checks /\ ovf
        THEN [panicked |-> TRUE, l1_hits |-> 0, l3_hits |-> 0, ram_hits |-> 0]
        ELSE [panicked |-> FALSE, l1_hits |-> l1_hits.val, l3_hits |-> l3_hits.val,
              ram_hits |-> ram_hits.val]

Total(s) ==
    s.instruction_reads + s.instruction_l1_misses + s.instruction_cache_misses
    + s.data_reads + s.data_l1_read_misses + s.data_cache_read_misses
    + s.data_writes + s.data_l1_write_misses + s.data_cache_write_misses

\* A report file's summary line gives a counter of the measured run (which = 1) or
\* of the calibration run (which = 2) a value one higher: the records the parser
\* hands to runner are any nine u64 values.
Count ==
    /\ st_pc = "counting"
    /\ Total(measured) + Total(baseline) < MaxTotal
    /\ \E which \in 1..2, f \in Fields :
        IF which = 1
        THEN measured' = [measured EXCEPT ![f] = @ + 1] /\ UNCHANGED baseline
        ELSE baseline' = [baseline EXCEPT ![f] = @ + 1] /\ UNCHANGED measured
    /\ UNCHANGED <<st_diff, st_sum, st_pc, orchVars, diffVars, parseVars>>

\* runner, line 364: stats.subtract(&calibration).
Subtract ==
    /\ st_pc = "counting"
    /\ st_diff' = subtract(measured, baseline)
    /\ st_pc' = "subtracted"
    /\ UNCHANGED <<measured, baseline, st_sum, orchVars, diffVars, parseVars>>

\* runner, line 429 (and Display, line 256): stats.summarize(), in either build.
Summarize ==
    /\ st_pc = "subtracted"
    /\ \E checks \in BOOLEAN : st_sum' = summarize(st_diff, checks)
    /\ st_pc' = "summarized"
    /\ UNCHANGED <<measured, baseline, st_diff, orchVars, diffVars, parseVars>>

StatInit ==
    /\ measured = ZeroStats
    /\ baseline = ZeroStats
    /\ st_diff = ZeroStats
    /\ st_sum = [panicked |-> FALSE, l1_hits |-> 0, l3_hits |-> 0, ram_hits |-> 0]
    /\ st_pc = "counting"


\* ----------------------------------------------------------- percentage_diff

\* The noise threshold as a quotient: pct = (new - old) / old * 100.0 is below 0.0001
\* exactly when (new - old) / old is below 1 / 1000000.
NoiseDenominator == 1000000

\* x / old < 1 / NoiseDenominator for whole numbers x and old > 0: x * NoiseDenominator
\* <= old - 1, written without the product.
BelowNoise(x, old) == x <= (old - 1) \div NoiseDenominator

Abs(n) == IF n < 0 THEN -n ELSE n

Pow10(j) == 10 ^ j

\* signed_short(pct) for pct = delta * 100 / old (old > 0), or for an infinite pct
\* (old = 0): the sign `{:+}` prints and the number of decimals of the branch taken.
\* |pct| < t is floor(|delta| * 100 / old) < t for the whole numbers t compared with.
signed_short(delta, old) ==
    LET whole == IF old = 0 THEN 0 ELSE (Abs(delta) * 100) \div old
        decimals == IF old = 0 THEN 0
                    ELSE IF whole < 10 THEN 6
                    ELSE IF whole < 100 THEN 5
                    ELSE IF whole < 1000 THEN 4
                    ELSE IF whole < 10000 THEN 3
                    ELSE IF whole < 100000 THEN 2
                    ELSE IF whole < 1000000 THEN 1
                    ELSE 0
    IN  [kind |-> "percent", sign |-> IF delta < 0 THEN "-" ELSE "+",
         decimals |-> decimals, infinite |-> old = 0]

NoChange == [kind |-> "no_change", sign |-> "", decimals |-> 0, infinite |-> FALSE]

\* percentage_diff(new, old). The u64 values are converted to f64 (exactly, below
\* 2^53); for old = 0 and new > 0 the quotient is +infinity, which is not below the
\* threshold.
percentage_diff(new, old) ==
    IF new = old
    THEN NoChange
    ELSE IF old # 0 /\ BelowNoise(new - old, old)
    THEN NoChange
    ELSE signed_short(new - old, old)

\* The old values percentage_diff is applied to: small ones, and the two next to
\* the value at which a change of one is exactly the noise threshold (at the
\* threshold itself the rounding of the f64 quotient decides the comparison).
OldValues == (0..MaxSmall) \cup {NoiseDenominator - 1, NoiseDenominator + 1}

NewValues(old) ==
    {n \in {old + d : d \in (0 - MaxDelta)..MaxDelta} : n >= 0}
    \cup (IF old <= MaxSmall THEN {old * Pow10(j) : j \in 1..MaxPow} ELSE {})

\* runner, lines 425-459: percentage_diff applied to a metric of the new and the
\* previous run.
Compare ==
    /\ pd_pc = "input"
    /\ pd_out' = percentage_diff(pd_new, pd_old)
    /\ pd_pc' = "done"
    /\ UNCHANGED <<pd_new, pd_old, orchVars, statVars, parseVars>>

DiffInit ==
    /\ pd_old \in OldValues
    /\ pd_new \in NewValues(pd_old)
    /\ pd_out = NoChange
    /\ pd_pc = "input"


\* ------------------------------------------------- parse_cachegrind_output

\* The counter names the parser looks up, each with the field it fills, in the
\* order of the struct literal.
RequiredNames == <<"Ir", "I1mr", "ILmr", "Dr", "D1mr", "DLmr", "Dw", "D1mw", "DLmw">>
FieldOf == <<"instruction_reads", "instruction_l1_misses", "instruction_cache_misses",
             "data_reads", "data_l1_read_misses", "data_cache_read_misses",
             "data_writes", "data_l1_write_misses", "data_cache_write_misses">>

\* The decimal texts of the counter values the model writes into summary lines; the
\* text at position p is the numeral of p - 1.
U64Texts == <<"0", "1", "2", "3", "4", "5", "6", "7", "8", "9", "10", "11", "12", "13",
              "14", "15">>

\* str::parse::<u64>: digits, with an optional leading "+"; anything else (a sign
\* "-", a letter, a numeral above u64::MAX) is an error.
parse_u64(s) ==
    IF \E p \in 1..Len(U64Texts) : s = U64Texts[p] \/ s = "+" \o U64Texts[p]
    THEN [ok |-> TRUE,
          val |-> (CHOOSE p \in 1..Len(U64Texts) : s = U64Texts[p] \/ s = "+" \o U64Texts[p]) - 1]
    ELSE [ok |-> FALSE, val |-> 0]

\* A line of a report file: the text up to and including the first blank, and the
\* whitespace-separated tokens after it.
Line(prefix, tokens) == [prefix |-> prefix, tokens |-> tokens]

None == [some |-> FALSE, tokens |-> <<>>]
Some(t) == [some |-> TRUE, tokens |-> t]

\* The scan with a line kept only while none was found before it.
RECURSIVE scan_first(_, _, _, _)
scan_first(f, i, ev, sm) ==
    IF i > Len(f)
    THEN [events |-> ev, summary |-> sm]
    ELSE scan_first(f, i + 1,
                    IF f[i].prefix = "events: " /\ ~ev.some THEN Some(f[i].tokens) ELSE ev,
                    IF f[i].prefix = "summary: " /\ ~sm.some THEN Some(f[i].tokens) ELSE sm)

\* The loop over the lines of the file, lines 194-202, from line i on: every line
\* with the prefix replaces what events_line (summary_line) held.
RECURSIVE scan(_, _, _, _)
scan(f, i, ev, sm) ==
    IF i > Len(f)
    THEN [events |-> ev, summary |-> sm]
    ELSE scan(f, i + 1,
              IF f[i].prefix = "events: " THEN Some(f[i].tokens) ELSE ev,
              IF f[i].prefix = "summary: " THEN Some(f[i].tokens) ELSE sm)

EmptyMap == [n \in {} |-> 0]

\* HashMap::insert.
insert(map, key, val) == [n \in DOMAIN map \cup {key} |-> IF n = key THEN val ELSE map[n]]

\* events.split_whitespace().zip(summary.split_whitespace().map(parse)).collect(),
\* from position i on: zip asks the events side first and stops when either side
\* ends, so a summary token is parsed only when an events token stands at its
\* position.
RECURSIVE collect(_, _, _, _)
collect(ev, sm, i, map) ==
    IF i > Len(ev) \/ i > Len(sm)
    THEN [ok |-> TRUE, map |-> map]
    ELSE LET v == parse_u64(sm[i]) IN
         IF ~v.ok
         THEN [ok |-> FALSE, map |-> EmptyMap]
         ELSE collect(ev, sm, i + 1, insert(map, ev[i], v.val))

\* A lookup that gives 0 for a name the map does not hold.
lookup_or_default(map, name) ==
    IF name \in DOMAIN map THEN [ok |-> TRUE, val |-> map[name]] ELSE [ok |-> TRUE, val |-> 0]

\* events[name]: HashMap's Index panics for a key the map does not hold.
lookup(map, name) ==
    IF name \in DOMAIN map THEN [ok |-> TRUE, val |-> map[name]] ELSE [ok |-> FALSE, val |-> 0]

Failed(why) == [ok |-> FALSE, error |-> why]

\* parse_cachegrind_output on the lines of an existing file: the CachegrindStats,
\* or the panic.
parse_cachegrind_output(f) ==
    LET found == scan(f, 1, None, None) IN
    IF ~(found.events.some /\ found.summary.some)
    THEN Failed("Unable to parse cachegrind output file")
    ELSE LET events == collect(found.events.tokens, found.summary.tokens, 1, EmptyMap) IN
         IF ~events.ok
         THEN Failed("Unable to parse summary line from cachegrind output file")
         ELSE IF \E j \in 1..Len(RequiredNames) : ~lookup(events.map, RequiredNames[j]).ok
         THEN Failed("key not found")
         ELSE [ok |-> TRUE,
               stats |-> [fld \in Fields |->
                            LET j == CHOOSE j \in 1..Len(FieldOf) : FieldOf[j] = fld
                            IN  lookup(events.map, RequiredNames[j]).val]]

\* ---- the report files SpecParse writes

Rotate(seq, r) == [i \in 1..Len(seq) |-> seq[((i - 1 + r) % Len(seq)) + 1]]
Reverse(seq) == [i \in 1..Len(seq) |-> seq[Len(seq) + 1 - i]]

\* len numerals, the one at position i being base + i.
Values(base, len) == [i \in 1..len |-> U64Texts[base + i + 1]]

WithToken(seq, i, tok) == [seq EXCEPT ![i] = tok]

EventsLines ==
    {Line("events: ", Rotate(RequiredNames, r)) : r \in 0..MaxRot}
    \cup {Line("events: ", Reverse(RequiredNames)),
          Line("events: ", SubSeq(RequiredNames, 1, 8)),
          Line("events: ", <<"Bc">> \o RequiredNames),
          Line("events: ", RequiredNames \o <<"Ir">>)}

SummaryLines ==
    {Line("summary: ", Values(b, 9)) : b \in 0..MaxBase}
    \cup {Line("summary: ", Values(0, 8)),
          Line("summary: ", Values(0, 10)),
          Line("summary: ", WithToken(Values(0, 9), 1, "18446744073709551616")),
          Line("summary: ", WithToken(Values(0, 9), 9, "-1")),
          Line("summary: ", WithToken(Values(0, 9), 3, "x")),
          Line("summary: ", WithToken(Values(0, 9), 2, "+7")),
          Line("summary: ", WithToken(Values(0, 10), 10, "x"))}

OtherLines ==
    {Line("desc: ", <<"I1", "cache:", "32768", "B,", "64", "B,", "8-way", "associative">>),
     Line("events:", RequiredNames)}

Lines == EventsLines \cup SummaryLines \cup OtherLines

\* cachegrind (or anything else) writes one more line of the report file.
WriteLine ==
    /\ ps_pc = "writing"
    /\ Len(file) < MaxLines
    /\ \E l \in Lines : file' = Append(file, l)
    /\ UNCHANGED <<parsed, ps_pc, orchVars, statVars, diffVars>>

\* run_bench, lines 178-180: the file is parsed.
Parse ==
    /\ ps_pc = "writing"
    /\ parsed' = parse_cachegrind_output(file)
    /\ ps_pc' = "parsed"
    /\ UNCHANGED <<file, orchVars, statVars, diffVars>>

ParseInit ==
    /\ file = <<>>
    /\ parsed = Failed("")
    /\ ps_pc = "writing"

OrchInit ==
    /\ args = <<>>
    /\ tool = "ok"
    /\ uname = TRUE
    /\ pc = "exit"
    /\ exit = "none"
    /\ json = FALSE
    /\ calibration = 0
    /\ old_calibration = 0
    /\ k = 0
    /\ out = <<>>
    /\ spawned = <<>>
    /\ invoked = <<>>
    /\ fileops = {}
    /\ probed = FALSE
    /\ runs = 0
    /\ fs = [p \in Paths |-> 0]
    /\ fs_start = [p \in Paths |-> 0]
    /\ last = [n \in Names |-> 0]
    /\ prev = [n \in Names |-> 0]
    /\ first_failure = NoFailure
    /\ unspawned = {}

StatIdle ==
    /\ measured = 0 /\ baseline = 0 /\ st_diff = 0 /\ st_sum = 0 /\ st_pc = "idle"

DiffIdle ==
    /\ pd_new = 0 /\ pd_old = 0 /\ pd_out = 0 /\ pd_pc = "idle"

ParseIdle ==
    /\ file = <<>> /\ parsed = Failed("") /\ ps_pc = "idle"

Init == OrchInit /\ StatIdle /\ DiffIdle /\ ParseIdle

Next == Start \/ Dispatch \/ Probe \/ Arch \/ Calibrate \/ Bench

Spec == Init /\ [][Next]_vars

InitStats == OrchInit /\ StatInit /\ DiffIdle /\ ParseIdle

NextStats == Count \/ Subtract \/ Summarize

SpecStats == InitStats /\ [][NextStats]_vars

InitDiff == OrchInit /\ StatIdle /\ DiffInit /\ ParseIdle

NextDiff == Compare

SpecDiff == InitDiff /\ [][NextDiff]_vars

InitParse == OrchInit /\ StatIdle /\ DiffIdle /\ ParseInit

NextParse == WriteLine \/ Parse

SpecParse == InitParse /\ [][NextParse]_vars

\* ------------------------------------------------------------------ claims

SelfBodies == SelectSeq(invoked, LAMBDA e : e.proc = "self")

\* C1 (as claimed): after any sequence of run_bench invocations for a name, each
\* with a child that exited with status zero or non-zero, the current file, if present, holds the report of the most recent
\* invocation, and the .old file, if present, holds the report of the invocation
\* immediately before it, never the report the current file holds.
C1_FilesHoldLastTwoInvocations ==
    \A n \in Names \ unspawned :
        /\ fs[output_file(n)] # 0 => fs[output_file(n)] = last[n]
        /\ fs[old_file(n)] # 0 =>
              /\ fs[old_file(n)] = prev[n]
              /\ fs[old_file(n)] # fs[output_file(n)]

\* C3 (as claimed): once a child exited non-zero the orchestrator has stopped, the
\* failing child is the last one invoked, and nothing was printed for the failing
\* benchmark or a later one.
C3_NoOutputForFailedBenchmark ==
    first_failure # NoFailure =>
        /\ pc = "exit" /\ exit = "child_failed"
        /\ spawned = [j \in 1..(first_failure + 2) |-> j - 2]
        /\ \A j \in 1..Len(out) : out[j].bench < first_failure

\* C3 (amended): once a child exited non-zero the orchestrator has stopped, the
\* failing child is the last one invoked, nothing was printed for a later benchmark,
\* and for the failing benchmark only the line (or "run" event) that is printed
\* before its child is invoked; a failing calibration child leaves no output.
C3_AbortAfterFailedChild ==
    first_failure # NoFailure =>
        /\ pc = "exit" /\ exit = "child_failed"
        /\ spawned = [j \in 1..(first_failure + 2) |-> j - 2]
        /\ first_failure = -1 => out = <<>>
        /\ \A j \in 1..Len(out) :
              /\ out[j].bench <= first_failure
              /\ out[j].bench = first_failure =>
                    /\ out[j].kind = (IF json THEN "run" ELSE "name")
                    /\ j = Len(out)

C3_Witness ==
    /\ first_failure = 1
    /\ exit = "child_failed"
    /\ Len(out) = 3
    /\ out[2].kind = "report"
    /\ out[3] = Event("name", 1)

\* C8: a process started with --iai-run never acts as orchestrator (no probe, no
\* child, no file operation, no output); with index -1 it invokes no body, with an
\* index i of the registered list it invokes exactly body i, once. A process started
\* with any other first argument invokes no body itself.
C8_ChildModeRunsOnlyItsBody ==
    /\ is_iai_run(args) =>
          /\ pc \in {"dispatch", "exit"}
          /\ ~probed /\ spawned = <<>> /\ out = <<>> /\ fileops = {} /\ fs = fs_start
          /\ \A j \in 1..Len(invoked) : invoked[j].proc = "self"
          /\ pc = "exit" =>
                /\ args = <<"--iai-run", "-1">> => (invoked = <<>> /\ exit = "returned")
                /\ \A i \in 0..(NumBenches - 1) :
                      args = <<"--iai-run", to_string(i)>> =>
                          (invoked = <<[proc |-> "self", idx |-> i]>> /\ exit = "returned")
    /\ ~is_iai_run(args) => SelfBodies = <<>>

C8_Witness ==
    /\ args = <<"--iai-run", "1">>
    /\ pc = "exit"
    /\ invoked = <<[proc |-> "self", idx |-> 1]>>
    /\ \E p \in Paths : fs[p] # 0

\* C9: when the valgrind probe fails the orchestrator prints the diagnostic and
\* returns: no child is invoked, no body runs and no report file is created, rotated
\* or overwritten.
C9_NoToolNoInvocation ==
    (runs > 0 /\ ~is_iai_run(args) /\ tool # "ok") =>
        /\ pc \in {"dispatch", "probe", "exit"}
        /\ spawned = <<>> /\ invoked = <<>> /\ fileops = {} /\ fs = fs_start
        /\ pc = "exit" =>
              /\ exit = "tool_unavailable"
              /\ probed
              /\ Len(out) = 1
              /\ out[1].kind = (IF tool = "missing" THEN "diag_launch" ELSE "diag_status")

C9_Witness ==
    /\ ~is_iai_run(args)
    /\ tool = "bad_status"
    /\ exit = "tool_unavailable"
    /\ fs[old_file(CalibrationName)] # 0
    /\ fs = fs_start

\* C10 (as claimed): whenever a previous-run value is computed for a benchmark, the
\* old benchmark report and the old calibration report it is computed from were
\* produced by the same earlier orchestrator run.
C10_OldStatsFromOneRun ==
    \A j \in 1..Len(out) :
        (out[j].kind \in {"ran", "report"} /\ out[j].old_stats # <<0, 0>>) =>
            out[j].old_stats[1] = out[j].old_stats[2]

\* What cachegrind itself reports: per kind of reference, the last-level misses are
\* among the first-level misses, which are among the references.
Consistent(s) ==
    /\ s.instruction_cache_misses <= s.instruction_l1_misses
    /\ s.instruction_l1_misses <= s.instruction_reads
    /\ s.data_cache_read_misses <= s.data_l1_read_misses
    /\ s.data_l1_read_misses <= s.data_reads
    /\ s.data_cache_write_misses <= s.data_l1_write_misses
    /\ s.data_l1_write_misses <= s.data_writes

\* C2 (as claimed): for the difference of a measured record and a calibration
\* record, both as cachegrind reports them, summarize computes
\* l3_hits = l3_accesses - ram_hits and l1_hits = total_memory_rw - (ram_hits + l3_hits)
\* without underflow, and l1_hits + l3_hits + ram_hits = total_memory_rw.
C2_SummarizeConserves ==
    (st_pc = "summarized" /\ Consistent(measured) /\ Consistent(baseline)) =>
        LET l3_accesses == st_diff.instruction_l1_misses + st_diff.data_l1_read_misses
                           + st_diff.data_l1_write_misses
            total_memory_rw == st_diff.instruction_reads + st_diff.data_reads
                               + st_diff.data_writes
        IN  /\ ~st_sum.panicked
            /\ st_sum.l3_hits = l3_accesses - st_sum.ram_hits
            /\ st_sum.l1_hits = total_memory_rw - (st_sum.ram_hits + st_sum.l3_hits)
            /\ st_sum.l1_hits + st_sum.l3_hits + st_sum.ram_hits = total_memory_rw

\* C7: every field of a.subtract(b) is >= 0, is a.field - b.field when
\* a.field >= b.field and 0 otherwise, whatever the other eight fields hold.
C7_SubtractSaturatesPerField ==
    st_pc \in {"subtracted", "summarized"} =>
        \A f \in Fields :
            /\ st_diff[f] >= 0
            /\ measured[f] >= baseline[f] => st_diff[f] = measured[f] - baseline[f]
            /\ measured[f] < baseline[f] => st_diff[f] = 0

C7_Witness ==
    /\ st_pc = "subtracted"
    /\ measured.data_l1_write_misses < baseline.data_l1_write_misses
    /\ measured.data_l1_read_misses > baseline.data_l1_read_misses
    /\ baseline.data_l1_read_misses > 0
    /\ st_diff.data_l1_write_misses = 0
    /\ st_diff.data_l1_read_misses = 1

\* C4 (as claimed): percentage_diff(new, old) is "no change" exactly when new = old
\* or |new - old| / old is below the noise threshold; for every other pair it is a
\* signed percentage with the sign of new - old.
C4_NoChangeExactlyBelowNoise ==
    pd_pc = "done" =>
        LET delta == pd_new - pd_old
            below == pd_old # 0 /\ BelowNoise(Abs(delta), pd_old)
        IN  /\ (pd_out.kind = "no_change") <=> (pd_new = pd_old \/ below)
            /\ pd_out.kind # "no_change" =>
                  (pd_out.kind = "percent" /\ pd_out.sign = (IF delta > 0 THEN "+" ELSE "-"))

\* The last line of the file with the prefix (0: none).
LastLine(prefix) ==
    IF \E i \in 1..Len(file) : file[i].prefix = prefix
    THEN CHOOSE i \in 1..Len(file) :
            /\ file[i].prefix = prefix
            /\ \A j \in (i + 1)..Len(file) : file[j].prefix # prefix
    ELSE 0

HasBothLines == LastLine("events: ") # 0 /\ LastLine("summary: ") # 0

\* The tokens of the last events line and of the last summary line.
EventsTokens == file[LastLine("events: ")].tokens
SummaryTokens == file[LastLine("summary: ")].tokens

IsU64Text(tok) == \E p \in 1..Len(U64Texts) : tok = U64Texts[p] \/ tok = "+" \o U64Texts[p]

\* Every required name stands at a position of the events line ev that the summary
\* line sm has too.
AllNamesPaired(ev, sm) ==
    \A j \in 1..Len(RequiredNames) :
        \E i \in 1..Len(ev) : i <= Len(sm) /\ ev[i] = RequiredNames[j]

NoStats == DOMAIN parsed = {"ok", "error"}

\* C5 (as claimed): the parser returns counters exactly when the file has both
\* lines, all nine required names are paired with a value and every token of the
\* summary line is a u64 numeral; otherwise it fails and yields no counters.
C5_ParsesOnlyFullyNumericSummary ==
    ps_pc = "parsed" =>
        /\ parsed.ok <=>
              /\ HasBothLines
              /\ LET ev == EventsTokens
                     sm == SummaryTokens
                 IN  /\ AllNamesPaired(ev, sm)
                     /\ \A i \in 1..Len(sm) : IsU64Text(sm[i])
        /\ ~parsed.ok => NoStats

\* C5 (amended): the parser returns counters exactly when the file has both lines,
\* all nine required names are paired with a value and every summary token that
\* stands at a position of an events name is a u64 numeral (summary tokens beyond
\* the last events name are never parsed); otherwise it fails and yields no counters.
C5_ParsesOnlyPairedNumericSummary ==
    ps_pc = "parsed" =>
        /\ parsed.ok <=>
              /\ HasBothLines
              /\ LET ev == EventsTokens
                     sm == SummaryTokens
                 IN  /\ AllNamesPaired(ev, sm)
                     /\ \A i \in 1..Len(sm) : i <= Len(ev) => IsU64Text(sm[i])
        /\ ~parsed.ok => NoStats

C5_Witness ==
    /\ ps_pc = "parsed"
    /\ parsed.ok
    /\ HasBothLines
    /\ Len(SummaryTokens) = 10
    /\ Len(EventsTokens) = 9
    /\ ~IsU64Text(SummaryTokens[10])

\* A report file as cachegrind writes it: both lines, the events names ev distinct
\* and the nine required ones among them, as many summary tokens sm as names, each a
\* numeral.
WellFormed(ev, sm) ==
    /\ \A i, j \in 1..Len(ev) : ev[i] = ev[j] => i = j
    /\ \A j \in 1..Len(RequiredNames) : \E i \in 1..Len(ev) : ev[i] = RequiredNames[j]
    /\ Len(sm) = Len(ev)
    /\ \A i \in 1..Len(sm) : \E p \in 1..Len(U64Texts) : sm[i] = U64Texts[p]

\* C6: for a well-formed file, whatever the order of the names and of the two
\* lines, each required counter is the integer written at the position of the
\* summary line at which its name stands on the events line; of a line that occurs
\* more than once, the last occurrence is used.
C6_LookupByNameLastLineWins ==
    (ps_pc = "parsed" /\ HasBothLines) =>
        LET ev == EventsTokens
            sm == SummaryTokens
        IN  WellFormed(ev, sm) =>
                /\ parsed.ok
                /\ \A j \in 1..Len(RequiredNames) :
                      \A i \in 1..Len(ev) :
                          ev[i] = RequiredNames[j] =>
                              U64Texts[parsed.stats[FieldOf[j]] + 1] = sm[i]

C6_Witness ==
    /\ ps_pc = "parsed"
    /\ Len(file) = 3
    /\ file[1] = Line("events: ", RequiredNames)
    /\ file[2].prefix = "summary: "
    /\ file[3] = Line("events: ", Reverse(RequiredNames))
    /\ WellFormed(file[3].tokens, file[2].tokens)
    /\ parsed.ok
    /\ parsed.stats.instruction_reads = 9

====
